---- MODULE Spec2Model ----
(***************************************************************************)
(* State machine of my-english-tenses-app/src/App.js: the two-screen       *)
(* practice wizard (start / practice), its two Gemini requests             *)
(* (generateSentences, getSentenceReview) and the Firebase mount effect.   *)
(*                                                                         *)
(* Texts that the code trims, splits or matches (the generation response,  *)
(* the sentences, the user's answer, the review) are sequences of          *)
(* one-character strings, so that trim(), split('\n') and the line regex   *)
(* are computed.  Error messages are never inspected by the code beyond     *)
(* truthiness and are plain strings ("" = no message).                     *)
(***************************************************************************)
EXTENDS Integers, Sequences, FiniteSets, TLC

\* ------------------------------------------------------------------ bounds
\* most lines in one generation response
MaxLines == 2
\* most requests the model lets be outstanding at once
MaxPending == 2

\* ------------------------------------------------------- program constants
\* useState(5) / setNumSentences(5)
DefaultNumSentences == 5
\* parseInt('') of the count field: a value for which every comparison is false
NaN == -1000
\* return value of the catch branch of getSentenceReview
FallbackReview ==
  << "F","a","i","l","e","d"," ","t","o"," ","g","e","t"," ",
     "r","e","v","i","e","w","."," ",
     "P","l","e","a","s","e"," ","t","r","y"," ","a","g","a","i","n","." >>

NL == "\n"
NoText == << >>

\* messages of setErrorMessage (the Ukrainian ones are given in English)
MsgNoTense == "select at least one tense"
MsgCount == "count must be greater than zero"
MsgGenFailed == "could not generate sentences"
MsgGenError == "Failed to generate sentences"
MsgReviewError == "Failed to get review"
MsgNoAnswer == "enter your answer"
MsgAuthError == "Authentication error. Please try again later."
MsgInitError == "Failed to initialize Firebase. Check console."

\* ------------------------------------------------------------ input domains
\* two of the twelve labels of availableTenses, abbreviated to one letter
AvailableTenses == {"P", "Q"}
\* values the theme field is given
Themes == {"", "travel"}
\* values parseInt yields for what is typed into the count field
Counts == {NaN, 0, 1, 2, DefaultNumSentences}
\* values the answer textarea is given: empty, blank, a translation
Answers == { NoText, <<" ">>, <<"I">> }
\* user identifiers: none yet (null), the Firebase uid, a crypto.randomUUID() value
NoUser == "null"
FirebaseUid == "uid"
RandomUuid == "uuid"

\* lines a generation response is made of
GenLines ==
  { <<"a"," ","[","P","]">>,              \* well-formed
    <<"b"," ","[","P","]">>,              \* well-formed, other sentence
    <<" ","a"," ","[","X","]">>,          \* the first sentence after a blank, tag outside the labels
    <<"a">>,                              \* no tag
    <<" ","[","P","]">> }                 \* a tag preceded by a blank only

RECURSIVE JoinLines(_)
JoinLines(ls) ==
  IF Len(ls) = 1 THEN ls[1] ELSE ls[1] \o <<NL>> \o JoinLines(Tail(ls))

LineSeqs == UNION { [1..n -> GenLines] : n \in 1..MaxLines }

\* what fetch + response.json() of a generation request resolves to
GenResponses ==
  { [kind |-> "ok", text |-> JoinLines(ls)] : ls \in LineSeqs }
    \cup { [kind |-> "ok", text |-> <<" ">>],
           [kind |-> "transport", text |-> NoText],
           [kind |-> "structure", text |-> NoText] }

\* what fetch + response.json() of a review request resolves to
ReviewResponses ==
  { [kind |-> "ok", text |-> <<"o","k"," ">>],
    [kind |-> "ok", text |-> <<" ">>],
    [kind |-> "transport", text |-> NoText],
    [kind |-> "structure", text |-> NoText] }

NoOut == [kind |-> "none", text |-> NoText]

\* ---------------------------------------------------------- text functions
IsWhitespace(c) == c \in {" ", NL}

RECURSIVE TrimStart(_)
TrimStart(s) ==
  IF s = NoText THEN s
  ELSE IF IsWhitespace(Head(s)) THEN TrimStart(Tail(s)) ELSE s

RECURSIVE TrimEnd(_)
TrimEnd(s) ==
  IF s = NoText THEN s
  ELSE IF IsWhitespace(s[Len(s)]) THEN TrimEnd(SubSeq(s, 1, Len(s) - 1)) ELSE s

\* String.prototype.trim
Trim(s) == TrimEnd(TrimStart(s))

\* a split on a separator the text does not contain
SplitNever(s) == << s >>

\* String.prototype.split('\n')
RECURSIVE Split(_)
Split(s) ==
  LET nls == { i \in 1..Len(s) : s[i] = NL } IN
  IF nls = {} THEN << s >>
  ELSE LET i == CHOOSE k \in nls : \A m \in nls : k <= m
       IN << SubSeq(s, 1, i - 1) >> \o Split(SubSeq(s, i + 1, Len(s)))

\* line.match(/(.*) \[(.*?)\]$/): the greedy first group ends at the last
\* " [" that is still followed by a closing "]" at the end of the line.
MatchStarts(line) ==
  { i \in 1..(Len(line) - 2) : line[i] = " " /\ line[i + 1] = "[" }

LineMatches(line) ==
  /\ Len(line) >= 3
  /\ line[Len(line)] = "]"
  /\ MatchStarts(line) # {}

MatchGroups(line) ==
  LET i == CHOOSE k \in MatchStarts(line) : \A m \in MatchStarts(line) : m <= k
  IN [sentence |-> SubSeq(line, 1, i - 1),
      tense |-> SubSeq(line, i + 2, Len(line) - 1)]

\* ------------------------------------------------------- number functions
\* a < b of JavaScript numbers
JsLess(a, b) == a # NaN /\ b # NaN /\ a < b
\* a comparison that lets the bound itself through
JsLessEqStrict(a, b) == a # NaN /\ b # NaN /\ a < b

\* a <= b of JavaScript numbers
JsLessEq(a, b) == a # NaN /\ b # NaN /\ a <= b
\* a - 1 of JavaScript numbers
JsMinusOne(a) == IF a = NaN THEN NaN ELSE a - 1

\* slice that keeps every parsed sentence
SliceKeepsAll(s, n) == s

\* Array.prototype.slice(0, n): NaN counts as 0, a negative n counts from the end
Slice(s, n) ==
  IF n = NaN THEN << >>
  ELSE IF n >= Len(s) THEN s
  ELSE IF n >= 0 THEN SubSeq(s, 1, n)
  ELSE IF Len(s) + n > 0 THEN SubSeq(s, 1, Len(s) + n) ELSE << >>

\* ------------------------------------------------- Sentence Generation Client
\* the for-loop over the lines: matching lines whose trimmed sentence is not
\* yet in usedSentences are added to the set and pushed; the rest is dropped
\* the loop without the usedSentences.has test
RECURSIVE ParseLinesNoDedup(_, _, _)
ParseLinesNoDedup(lines, usedSentences, parsedSentences) ==
  IF lines = << >> THEN [used |-> usedSentences, parsed |-> parsedSentences]
  ELSE LET line == Head(lines) IN
       IF LineMatches(line)
       THEN LET sentenceText == Trim(MatchGroups(line).sentence)
                tenseText == Trim(MatchGroups(line).tense)
            IN ParseLinesNoDedup(Tail(lines), usedSentences \cup {sentenceText},
                      Append(parsedSentences,
                             [sentence |-> sentenceText, tense |-> tenseText]))
       ELSE ParseLinesNoDedup(Tail(lines), usedSentences, parsedSentences)

\* a loop that gives up at the first line that does not match
RECURSIVE ParseLinesStopAtMalformed(_, _, _)
ParseLinesStopAtMalformed(lines, usedSentences, parsedSentences) ==
  IF lines = << >> THEN [used |-> usedSentences, parsed |-> parsedSentences]
  ELSE LET line == Head(lines) IN
       IF LineMatches(line)
       THEN LET sentenceText == Trim(MatchGroups(line).sentence)
                tenseText == Trim(MatchGroups(line).tense)
            IN IF sentenceText \notin usedSentences
               THEN ParseLinesStopAtMalformed(Tail(lines),
                      usedSentences \cup {sentenceText},
                      Append(parsedSentences,
                             [sentence |-> sentenceText, tense |-> tenseText]))
               ELSE ParseLinesStopAtMalformed(Tail(lines), usedSentences,
                                              parsedSentences)
       ELSE [used |-> usedSentences, parsed |-> parsedSentences]

\* a loop that pushes the sentence but never adds it to usedSentences
RECURSIVE ParseLinesNoAdd(_, _, _)
ParseLinesNoAdd(lines, usedSentences, parsedSentences) ==
  IF lines = << >> THEN [used |-> usedSentences, parsed |-> parsedSentences]
  ELSE LET line == Head(lines) IN
       IF LineMatches(line)
       THEN LET sentenceText == Trim(MatchGroups(line).sentence)
                tenseText == Trim(MatchGroups(line).tense)
            IN IF sentenceText \notin usedSentences
               THEN ParseLinesNoAdd(Tail(lines), usedSentences,
                      Append(parsedSentences,
                             [sentence |-> sentenceText, tense |-> tenseText]))
               ELSE ParseLinesNoAdd(Tail(lines), usedSentences, parsedSentences)
       ELSE ParseLinesNoAdd(Tail(lines), usedSentences, parsedSentences)

RECURSIVE ParseLines(_, _, _)
ParseLines(lines, usedSentences, parsedSentences) ==
  IF lines = << >> THEN [used |-> usedSentences, parsed |-> parsedSentences]
  ELSE LET line == Head(lines) IN
       IF LineMatches(line)
       THEN LET sentenceText == Trim(MatchGroups(line).sentence)
                tenseText == Trim(MatchGroups(line).tense)
            IN IF sentenceText \notin usedSentences
               THEN ParseLines(Tail(lines), usedSentences \cup {sentenceText},
                      Append(parsedSentences,
                             [sentence |-> sentenceText, tense |-> tenseText]))
               ELSE ParseLines(Tail(lines), usedSentences, parsedSentences)
       ELSE ParseLines(Tail(lines), usedSentences, parsedSentences)

\* the label generateSentences falls back to ("Present Simple")
DefaultTense == "P"

\* chosenTenses: tenses.length > 0 ? tenses : ["Present Simple"]
ChosenTenses(tenses) == IF tenses # {} THEN tenses ELSE {DefaultTense}

\* generateSentences once its fetch has resolved to resp.  ok = FALSE is the
\* null of the catch branch; error is the message it leaves in errorMessage
\* ("" after setErrorMessage('') on the success path); used is the Set the
\* caller handed in, after the in-place additions.
generateSentences(tenses, themes, numberOfSentences, usedSentences, resp) ==
  IF resp.kind = "ok"
  THEN LET rawSentences == Trim(resp.text)
           p == ParseLines(Split(rawSentences), usedSentences, << >>)
       IN [ok |-> TRUE, result |-> Slice(p.parsed, numberOfSentences),
           used |-> p.used, error |-> ""]
  ELSE [ok |-> FALSE, result |-> << >>, used |-> usedSentences,
        error |-> MsgGenError]

\* ------------------------------------------------------------ Review Client
\* getSentenceReview once its fetch has resolved to resp: the trimmed text, or
\* the fallback string with an error message when the call or its shape failed
\* a catch branch that forgets setErrorMessage
getSentenceReviewSilent(originalSentenceUk, userAnswerEn, resp) ==
  IF resp.kind = "ok"
  THEN [review |-> Trim(resp.text), failed |-> FALSE, error |-> ""]
  ELSE [review |-> FallbackReview, failed |-> FALSE, error |-> ""]

\* a catch branch that returns an empty review
getSentenceReviewEmpty(originalSentenceUk, userAnswerEn, resp) ==
  IF resp.kind = "ok"
  THEN [review |-> Trim(resp.text), failed |-> FALSE, error |-> ""]
  ELSE [review |-> NoText, failed |-> TRUE, error |-> MsgReviewError]

getSentenceReview(originalSentenceUk, userAnswerEn, resp) ==
  IF resp.kind = "ok"
  THEN [review |-> Trim(resp.text), failed |-> FALSE, error |-> ""]
  ELSE [review |-> FallbackReview, failed |-> TRUE, error |-> MsgReviewError]

\* -------------------------------------------------------------------- state
VARIABLES
  currentPage,            \* "start" or "practice"
  selectedTenses,         \* set of tense labels
  selectedThemes,         \* theme text
  numSentences,           \* value of the count field
  currentSentenceIndex,   \* 0-based index into sentencesData
  sentencesData,          \* sequence of practice items
  userAnswer,             \* text of the answer textarea
  currentReview,          \* displayed review
  isLoading,
  errorMessage,
  userId,
  isAuthReady,
  generatedSentencesSet,  \* the Set of sentences seen in this session
  authState,              \* "unmounted", "listening" (onAuthStateChanged registered), "local"
  pending,                \* requests whose fetch has not resolved yet
  lastEvent               \* the handler that ran last and what its request resolved to

vars == << currentPage, selectedTenses, selectedThemes, numSentences,
           currentSentenceIndex, sentencesData, userAnswer, currentReview,
           isLoading, errorMessage, userId, isAuthReady, generatedSentencesSet,
           authState, pending, lastEvent >>

config == << selectedTenses, selectedThemes, numSentences >>
practice == << currentSentenceIndex, sentencesData, userAnswer, currentReview >>
identity == << userId, isAuthReady, authState >>

Event(op, out) == [op |-> op, out |-> out]

\* a request in flight with what its async handler closed over
Request(kind, tenses, themes, count, data, idx, answer) ==
  [kind |-> kind, tenses |-> tenses, themes |-> themes, count |-> count,
   data |-> data, idx |-> idx, answer |-> answer]

RemoveAt(q, i) == SubSeq(q, 1, i - 1) \o SubSeq(q, i + 1, Len(q))

\* the item sentencesData[i] of the code (i counts from 0)
HasItem(data, i) == i >= 0 /\ i < Len(data)
ItemAt(data, i) == data[i + 1]

Init ==
  /\ currentPage = "start"
  /\ selectedTenses = {}
  /\ selectedThemes = ""
  /\ numSentences = DefaultNumSentences
  /\ currentSentenceIndex = 0
  /\ sentencesData = << >>
  /\ userAnswer = NoText
  /\ currentReview = NoText
  /\ isLoading = FALSE
  /\ errorMessage = ""
  /\ userId = NoUser
  /\ isAuthReady = FALSE
  /\ generatedSentencesSet = {}
  /\ authState = "unmounted"
  /\ pending = << >>
  /\ lastEvent = Event("init", NoOut)

\* ------------------------------------------------------ Firebase mount effect
\* useEffect(..., []): runs once; with an empty config or a throwing
\* initializeApp it sets a random userId and isAuthReady at once, otherwise
\* it registers the onAuthStateChanged listener
MountEffect ==
  /\ authState = "unmounted"
  /\ \E path \in {"empty", "throws", "configured"} :
       \/ /\ path = "empty"
          /\ userId' = RandomUuid
          /\ isAuthReady' = TRUE
          /\ authState' = "local"
          /\ UNCHANGED errorMessage
       \/ /\ path = "throws"
          /\ userId' = RandomUuid
          /\ isAuthReady' = TRUE
          /\ authState' = "local"
          /\ errorMessage' = MsgInitError
       \/ /\ path = "configured"
          /\ authState' = "listening"
          /\ UNCHANGED << userId, isAuthReady, errorMessage >>
  /\ lastEvent' = Event("mount", NoOut)
  /\ UNCHANGED << currentPage, config, practice, isLoading,
                  generatedSentencesSet, pending >>

\* the onAuthStateChanged callback, from its first state update on: a signed-in
\* user, a sign-in that succeeded, or a sign-in that threw
AuthStateChanged ==
  /\ authState = "listening"
  /\ \E outcome \in {"user", "signedIn", "signInFailed"} :
       \/ /\ outcome \in {"user", "signedIn"}
          /\ userId' = FirebaseUid
          /\ UNCHANGED errorMessage
       \/ /\ outcome = "signInFailed"
          /\ errorMessage' = MsgAuthError
          /\ userId' = RandomUuid
  /\ isAuthReady' = TRUE
  /\ lastEvent' = Event("auth", NoOut)
  /\ UNCHANGED << currentPage, config, practice, isLoading,
                  generatedSentencesSet, authState, pending >>

\* ------------------------------------------------------ start screen controls
\* a begin button that is not disabled while loading
BeginEnabledWhileLoading == currentPage = "start" /\ isAuthReady

\* disabled={isLoading || !isAuthReady} of the begin button, on the start screen
BeginEnabled == currentPage = "start" /\ ~isLoading /\ isAuthReady

\* handleTenseChange: toggles one label
handleTenseChange(tense) ==
  /\ currentPage = "start"
  /\ selectedTenses' = IF tense \in selectedTenses
                          THEN selectedTenses \ {tense}
                          ELSE selectedTenses \cup {tense}
  /\ lastEvent' = Event("edit", NoOut)
  /\ UNCHANGED << currentPage, selectedThemes, numSentences, practice, isLoading,
                  errorMessage, identity, generatedSentencesSet, pending >>

\* onChange of the theme field
SetSelectedThemes(v) ==
  /\ currentPage = "start"
  /\ v # selectedThemes
  /\ selectedThemes' = v
  /\ lastEvent' = Event("edit", NoOut)
  /\ UNCHANGED << currentPage, selectedTenses, numSentences, practice, isLoading,
                  errorMessage, identity, generatedSentencesSet, pending >>

\* onChange of the count field: setNumSentences(parseInt(value))
SetNumSentences(n) ==
  /\ currentPage = "start"
  /\ n # numSentences
  /\ numSentences' = n
  /\ lastEvent' = Event("edit", NoOut)
  /\ UNCHANGED << currentPage, selectedTenses, selectedThemes, practice, isLoading,
                  errorMessage, identity, generatedSentencesSet, pending >>

\* a begin handler without the selectedTenses.length === 0 test
handleStartPracticeNoTenseCheck ==
  /\ BeginEnabled
  /\ IF JsLessEq(numSentences, 0)
     THEN /\ errorMessage' = MsgCount
          /\ lastEvent' = Event("beginRejected", NoOut)
          /\ UNCHANGED << isLoading, generatedSentencesSet, pending >>
     ELSE /\ Len(pending) < MaxPending
          /\ isLoading' = TRUE
          /\ errorMessage' = ""
          /\ generatedSentencesSet' = {}
          /\ pending' = Append(pending,
                 Request("generate", selectedTenses, selectedThemes, numSentences,
                         << >>, 0, NoText))
          /\ lastEvent' = Event("begin", NoOut)
  /\ UNCHANGED << currentPage, config, practice, identity >>

\* handleStartPractice up to its await: the two local rejections, or a fresh
\* Set and the generation request (generateSentences up to its fetch)
handleStartPractice ==
  /\ BeginEnabled
  /\ IF selectedTenses = {}
     THEN /\ errorMessage' = MsgNoTense
          /\ lastEvent' = Event("beginRejected", NoOut)
          /\ UNCHANGED << isLoading, generatedSentencesSet, pending >>
     ELSE IF JsLessEq(numSentences, 0)
     THEN /\ errorMessage' = MsgCount
          /\ lastEvent' = Event("beginRejected", NoOut)
          /\ UNCHANGED << isLoading, generatedSentencesSet, pending >>
     ELSE /\ Len(pending) < MaxPending
          /\ isLoading' = TRUE
          /\ errorMessage' = ""
          /\ generatedSentencesSet' = {}
          /\ pending' = Append(pending,
                 Request("generate", selectedTenses, selectedThemes, numSentences,
                         << >>, 0, NoText))
          /\ lastEvent' = Event("begin", NoOut)
  /\ UNCHANGED << currentPage, config, practice, identity >>

\* generated.map(item => ({ originalSentence, userAnswer: '', geminiReview: '', tenseUsed }))
NewSentencesData(generated) ==
  [ k \in 1..Len(generated) |->
      [originalSentence |-> generated[k].sentence, userAnswer |-> NoText,
       geminiReview |-> NoText, tenseUsed |-> generated[k].tense] ]

\* the rest of generateSentences and of handleStartPractice, run when the
\* fetch of request i resolves
GenerateResolved(i) ==
  /\ i \in 1..Len(pending)
  /\ pending[i].kind = "generate"
  /\ \E resp \in GenResponses :
       LET req == pending[i]
           g == generateSentences(req.tenses, req.themes, req.count,
                                  generatedSentencesSet, resp)
       IN /\ generatedSentencesSet' = g.used
          /\ IF g.ok /\ Len(g.result) > 0
             THEN /\ sentencesData' = NewSentencesData(g.result)
                  /\ currentSentenceIndex' = 0
                  /\ userAnswer' = NoText
                  /\ currentReview' = NoText
                  /\ currentPage' = "practice"
                  /\ UNCHANGED errorMessage
             ELSE /\ errorMessage' = MsgGenFailed
                  /\ sentencesData' = << >>
                  /\ UNCHANGED << currentPage, currentSentenceIndex, userAnswer,
                                  currentReview >>
          /\ lastEvent' = Event("generateResolved", resp)
  /\ isLoading' = FALSE
  /\ pending' = RemoveAt(pending, i)
  /\ UNCHANGED << config, identity >>

\* --------------------------------------------------- practice screen controls
\* the practice controls are rendered only while isLoading is false;
\* disabled={isLoading || !userAnswer.trim()} of the review button
ReviewEnabled ==
  currentPage = "practice" /\ ~isLoading /\ Trim(userAnswer) # NoText

\* a next/finish button that does not wait for a review
NextEnabledWithoutReview == currentPage = "practice" /\ ~isLoading

\* disabled={isLoading || !currentReview} of the next/finish button
NextEnabled ==
  currentPage = "practice" /\ ~isLoading /\ currentReview # NoText

\* onChange of the answer textarea
SetUserAnswer(v) ==
  /\ currentPage = "practice"
  /\ ~isLoading
  /\ v # userAnswer
  /\ userAnswer' = v
  /\ lastEvent' = Event("edit", NoOut)
  /\ UNCHANGED << currentPage, config, currentSentenceIndex, sentencesData,
                  currentReview, isLoading, errorMessage, identity,
                  generatedSentencesSet, pending >>

\* handleGetReview up to its await: the local rejection, the TypeError of
\* sentencesData[currentSentenceIndex].originalSentence when there is no such
\* item (the handler stops, nothing is set), or the review request
\* (getSentenceReview up to its fetch)
handleGetReview ==
  /\ ReviewEnabled
  /\ IF Trim(userAnswer) = NoText
     THEN /\ errorMessage' = MsgNoAnswer
          /\ lastEvent' = Event("reviewRejected", NoOut)
          /\ UNCHANGED << isLoading, pending >>
     ELSE IF ~HasItem(sentencesData, currentSentenceIndex)
     THEN /\ lastEvent' = Event("reviewThrows", NoOut)
          /\ UNCHANGED << errorMessage, isLoading, pending >>
     ELSE /\ Len(pending) < MaxPending
          /\ isLoading' = TRUE
          /\ errorMessage' = ""
          /\ pending' = Append(pending,
                 Request("review", {}, "", 0, sentencesData, currentSentenceIndex,
                         userAnswer))
          /\ lastEvent' = Event("review", NoOut)
  /\ UNCHANGED << currentPage, config, practice, identity, generatedSentencesSet >>

\* a resolution that writes the answer and the review into every item
ReviewResolvedAllItems(i) ==
  /\ i \in 1..Len(pending)
  /\ pending[i].kind = "review"
  /\ \E resp \in ReviewResponses :
       LET req == pending[i]
           r == getSentenceReview(ItemAt(req.data, req.idx).originalSentence,
                                  req.answer, resp)
       IN /\ sentencesData' =
               [ k \in 1..Len(req.data) |->
                   [req.data[k] EXCEPT !.userAnswer = req.answer,
                                       !.geminiReview = r.review] ]
          /\ currentReview' = r.review
          /\ errorMessage' = IF r.failed THEN r.error ELSE errorMessage
          /\ lastEvent' = Event("reviewResolved", resp)
  /\ isLoading' = FALSE
  /\ pending' = RemoveAt(pending, i)
  /\ UNCHANGED << currentPage, config, currentSentenceIndex, userAnswer,
                  identity, generatedSentencesSet >>

\* a resolution that shows the review but does not store it in the item
ReviewResolvedDisplayOnly(i) ==
  /\ i \in 1..Len(pending)
  /\ pending[i].kind = "review"
  /\ \E resp \in ReviewResponses :
       LET req == pending[i]
           r == getSentenceReview(ItemAt(req.data, req.idx).originalSentence,
                                  req.answer, resp)
       IN /\ sentencesData' =
               [req.data EXCEPT ![req.idx + 1] = [@ EXCEPT !.userAnswer = req.answer]]
          /\ currentReview' = r.review
          /\ errorMessage' = IF r.failed THEN r.error ELSE errorMessage
          /\ lastEvent' = Event("reviewResolved", resp)
  /\ isLoading' = FALSE
  /\ pending' = RemoveAt(pending, i)
  /\ UNCHANGED << currentPage, config, currentSentenceIndex, userAnswer,
                  identity, generatedSentencesSet >>

\* the rest of getSentenceReview and of handleGetReview, run when the fetch of
\* request i resolves; the handler writes through the sentencesData, index
\* and answer it closed over
ReviewResolved(i) ==
  /\ i \in 1..Len(pending)
  /\ pending[i].kind = "review"
  /\ \E resp \in ReviewResponses :
       LET req == pending[i]
           r == getSentenceReview(ItemAt(req.data, req.idx).originalSentence,
                                  req.answer, resp)
       IN /\ sentencesData' =
               [req.data EXCEPT ![req.idx + 1] =
                  [@ EXCEPT !.userAnswer = req.answer, !.geminiReview = r.review]]
          /\ currentReview' = r.review
          /\ errorMessage' = IF r.failed THEN r.error ELSE errorMessage
          /\ lastEvent' = Event("reviewResolved", resp)
  /\ isLoading' = FALSE
  /\ pending' = RemoveAt(pending, i)
  /\ UNCHANGED << currentPage, config, currentSentenceIndex, userAnswer,
                  identity, generatedSentencesSet >>

\* currentSentenceIndex < numSentences - 1
HasNext(index, count) == JsLess(index, JsMinusOne(count))

\* handleNextOrFinish
handleNextOrFinish ==
  /\ NextEnabled
  /\ IF HasNext(currentSentenceIndex, numSentences)
     THEN /\ currentSentenceIndex' = currentSentenceIndex + 1
          /\ userAnswer' = NoText
          /\ currentReview' = NoText
          /\ errorMessage' = ""
          /\ lastEvent' = Event("advance", NoOut)
          /\ UNCHANGED << currentPage, config, sentencesData, generatedSentencesSet >>
     ELSE /\ currentPage' = "start"
          /\ selectedTenses' = {}
          /\ selectedThemes' = ""
          /\ numSentences' = DefaultNumSentences
          /\ sentencesData' = << >>
          /\ currentSentenceIndex' = 0
          /\ userAnswer' = NoText
          /\ currentReview' = NoText
          /\ errorMessage' = ""
          /\ generatedSentencesSet' = {}
          /\ lastEvent' = Event("finish", NoOut)
  /\ UNCHANGED << isLoading, identity, pending >>

\* ------------------------------------------------------------ specification
Next ==
  \/ MountEffect
  \/ AuthStateChanged
  \/ \E t \in AvailableTenses : handleTenseChange(t)
  \/ \E v \in Themes : SetSelectedThemes(v)
  \/ \E n \in Counts : SetNumSentences(n)
  \/ handleStartPractice
  \/ \E i \in 1..MaxPending : GenerateResolved(i)
  \/ \E v \in Answers : SetUserAnswer(v)
  \/ handleGetReview
  \/ \E i \in 1..MaxPending : ReviewResolved(i)
  \/ handleNextOrFinish

Spec == Init /\ [][Next]_vars

\* the user and the network keep going: every fetch of a request settles,
\* review requests that are made again and again come back with a review that
\* is not blank, and a control that is enabled again and again is used (the
\* answer is typed, review is pressed, next/finish is pressed)
Fairness ==
  /\ WF_vars(\E i \in 1..MaxPending : GenerateResolved(i))
  /\ WF_vars(\E i \in 1..MaxPending : ReviewResolved(i))
  /\ SF_vars(\E i \in 1..MaxPending : ReviewResolved(i) /\ currentReview' # NoText)
  /\ SF_vars(SetUserAnswer(<<"I">>))
  /\ SF_vars(handleGetReview)
  /\ SF_vars(handleNextOrFinish)

LiveSpec == Init /\ [][Next]_vars /\ Fairness

\* ------------------------------------------------------------------- claims
OnPractice == currentPage = "practice"
CurrentItem == ItemAt(sentencesData, currentSentenceIndex)
NextOps == {"advance", "finish"}
UserOps == {"begin", "beginRejected", "review", "reviewRejected", "reviewThrows",
            "advance", "finish"}
Failed(out) == out.kind \in {"transport", "structure"}
RespLines(out) == Split(Trim(out.text))
ConfigIsDefault ==
  selectedTenses = {} /\ selectedThemes = "" /\ numSentences = DefaultNumSentences

\* C1: on the practice screen the current sentence index is always an index
\* of the practice session, 0 <= index <= length - 1.
C1_IndexInBounds ==
  OnPractice => /\ 0 <= currentSentenceIndex
                /\ currentSentenceIndex <= Len(sentencesData) - 1

\* C2: next/finish fired at the last index of the session (index = length - 1)
\* goes to the start screen, restores the default configuration, clears the
\* session, the answer, the review and the seen set, and does not advance.
C2_FinishAtLastIndex ==
  [][ ( /\ OnPractice
        /\ currentSentenceIndex = Len(sentencesData) - 1
        /\ lastEvent'.op \in NextOps )
      => ( /\ lastEvent'.op = "finish"
           /\ currentPage' = "start"
           /\ ConfigIsDefault'
           /\ sentencesData' = << >>
           /\ userAnswer' = NoText
           /\ currentReview' = NoText
           /\ generatedSentencesSet' = {} ) ]_vars

\* C3: while the item at the current index has an empty review the
\* next/finish action does not fire, and the index changes only in a step
\* taken from a state whose current item has a non-empty review.
C3_ReviewGating ==
  [][ /\ ( /\ OnPractice
            /\ HasItem(sentencesData, currentSentenceIndex)
            /\ CurrentItem.geminiReview = NoText )
         => lastEvent'.op \notin NextOps
      /\ currentSentenceIndex' # currentSentenceIndex
         => ( /\ HasItem(sentencesData, currentSentenceIndex)
              /\ CurrentItem.geminiReview # NoText ) ]_vars

\* the gate is closed on the item an advance has just moved to, although an
\* answer has been typed
C3_Witness ==
  /\ OnPractice /\ ~isLoading /\ currentSentenceIndex = 1
  /\ HasItem(sentencesData, currentSentenceIndex)
  /\ CurrentItem.geminiReview = NoText
  /\ Trim(userAnswer) # NoText
  /\ ~NextEnabled

\* C4: when the generation request of a begin with at least one tense and
\* count >= 1 resolves, either the screen is practice with index 0 and
\* between 1 and count items, all unanswered and unreviewed, or the screen is
\* still start with an error message and no session.
C4_BeginOutcome ==
  [][ ( /\ lastEvent'.op = "generateResolved"
        /\ Len(pending) = 1
        /\ pending[1].tenses # {}
        /\ pending[1].count >= 1 )
      => \/ /\ currentPage' = "practice"
            /\ currentSentenceIndex' = 0
            /\ Len(sentencesData') >= 1
            /\ Len(sentencesData') <= pending[1].count
            /\ \A k \in 1..Len(sentencesData') :
                 /\ sentencesData'[k].userAnswer = NoText
                 /\ sentencesData'[k].geminiReview = NoText
         \/ /\ currentPage' = "start"
            /\ errorMessage' # ""
            /\ sentencesData' = << >> ]_vars

\* a response with more well-formed lines than the count asked for has been
\* cut to the count
C4_Witness ==
  /\ lastEvent.op = "generateResolved"
  /\ OnPractice
  /\ Len(sentencesData) = 1
  /\ Len(RespLines(lastEvent.out)) = 2
  /\ \A k \in 1..2 : LineMatches(RespLines(lastEvent.out)[k])
  /\ Cardinality(generatedSentencesSet) = 2

\* C5: at most one request is outstanding, a request is outstanding only
\* while loading, and no begin, review or next/finish handler runs while
\* loading is true.
C5_OneOutstanding ==
  [][ /\ isLoading => lastEvent'.op \notin UserOps
      /\ Len(pending') <= 1
      /\ pending' # << >> => isLoading' ]_vars

\* the auth callback has run while a request was outstanding
C5_Witness ==
  isLoading /\ Len(pending) = 1 /\ lastEvent.op = "auth"

\* C6: a resolved request leaves loading false; when it failed, an error
\* message is shown and the button that issued it is enabled again.
C6_Resolved ==
  /\ lastEvent.op = "generateResolved"
       => /\ ~isLoading
          /\ Failed(lastEvent.out) => (errorMessage # "" /\ BeginEnabled)
  /\ lastEvent.op = "reviewResolved"
       => /\ ~isLoading
          /\ Failed(lastEvent.out) => (errorMessage # "" /\ ReviewEnabled)

\* a review request has failed on an unexpected response structure
C6_Witness ==
  /\ lastEvent.op = "reviewResolved"
  /\ lastEvent.out.kind = "structure"
  /\ ~isLoading /\ errorMessage # "" /\ ReviewEnabled

\* C7: whenever the review button is enabled the item at the current index
\* exists, so handleGetReview can read its originalSentence.
C7_ReviewItemExists ==
  ReviewEnabled => HasItem(sentencesData, currentSentenceIndex)

\* C8: after a failed review request the review of the current item and
\* the displayed review are empty, an error is shown and next/finish stays
\* disabled.
C8_FailedReviewStaysEmpty ==
  (lastEvent.op = "reviewResolved" /\ Failed(lastEvent.out))
    => /\ currentReview = NoText
       /\ CurrentItem.geminiReview = NoText
       /\ errorMessage # ""
       /\ ~NextEnabled

\* C9: when the transport call of a review request fails the review client
\* yields the fallback string, the screen and the index stay as they were and
\* an error message is set.
C9_ReviewFallback ==
  [][ ( /\ lastEvent'.op = "reviewResolved"
        /\ lastEvent'.out.kind = "transport" )
      => ( /\ currentReview' = FallbackReview
           /\ currentPage' = currentPage
           /\ currentSentenceIndex' = currentSentenceIndex
           /\ errorMessage' # "" ) ]_vars

\* a review request has failed in transport and the fallback is displayed
C9_Witness ==
  /\ lastEvent.op = "reviewResolved"
  /\ lastEvent.out.kind = "transport"
  /\ OnPractice
  /\ currentReview = FallbackReview

\* C10: no two items of the practice session have the same originalSentence,
\* compared after trimming.
C10_NoDuplicates ==
  \A i, j \in 1..Len(sentencesData) :
    i # j => Trim(sentencesData[i].originalSentence)
               # Trim(sentencesData[j].originalSentence)

\* the response held the same sentence on two well-formed lines and the
\* session holds it once, next to another sentence
C10_Witness ==
  /\ lastEvent.op = "generateResolved"
  /\ OnPractice
  /\ LET ls == RespLines(lastEvent.out) IN
       \E i, j \in 1..Len(ls) :
         /\ i < j
         /\ LineMatches(ls[i]) /\ LineMatches(ls[j])
         /\ Trim(MatchGroups(ls[i]).sentence) = Trim(MatchGroups(ls[j]).sentence)
  /\ Len(sentencesData) >= 1

\* the text of a tense label, as a tag of the response spells it
LabelText(t) == << t >>

\* C11: every item of a session created by begin has a tenseUsed that is one
\* of the labels the begin asked for (or the default label when it asked for
\* none).
C11_TenseRequested ==
  [][ ( /\ lastEvent'.op = "generateResolved"
        /\ Len(pending) = 1
        /\ currentPage' = "practice" )
      => \A k \in 1..Len(sentencesData') :
           sentencesData'[k].tenseUsed
             \in { LabelText(t) : t \in ChosenTenses(pending[1].tenses) } ]_vars

\* C12: every item of a session created by begin has a non-empty
\* originalSentence.
C12_SentenceNonEmpty ==
  \A k \in 1..Len(sentencesData) : sentencesData[k].originalSentence # NoText

NonPositive(n) == n # NaN /\ n <= 0
BeginOps == {"begin", "beginRejected"}
ReviewOps == {"review", "reviewRejected", "reviewThrows"}
RejectedOps == {"beginRejected", "reviewRejected"}

C14_Advance ==
  [][ /\ ( /\ OnPractice
            /\ lastEvent'.op \in NextOps
            /\ currentSentenceIndex < Len(sentencesData) - 1
            /\ CurrentItem.geminiReview # NoText )
         => ( /\ currentSentenceIndex' = currentSentenceIndex + 1
              /\ userAnswer' = NoText
              /\ currentReview' = NoText
              /\ errorMessage' = ""
              /\ UNCHANGED << currentPage, sentencesData, config,
                              generatedSentencesSet >> )
      /\ (OnPractice /\ OnPractice')
         => currentSentenceIndex' \in
              {currentSentenceIndex, currentSentenceIndex + 1} ]_vars

\* the review stored for the current index; an index without an item has none
StoredReview ==
  IF HasItem(sentencesData, currentSentenceIndex)
  THEN CurrentItem.geminiReview ELSE NoText

\* C15: a review request that succeeds stores the trimmed review text and
\* the submitted answer in the item at the current index and the same text in
\* the displayed review; in every practice state that is not loading the
\* displayed review equals the review stored for the current index.
C15_ReviewStored ==
  [][ /\ ( /\ lastEvent'.op = "reviewResolved"
            /\ lastEvent'.out.kind = "ok"
            /\ Len(pending) = 1 )
         => ( /\ HasItem(sentencesData', currentSentenceIndex')
              /\ CurrentItem'.geminiReview = Trim(lastEvent'.out.text)
              /\ CurrentItem'.userAnswer = pending[1].answer
              /\ CurrentItem'.userAnswer = userAnswer
              /\ currentReview' = Trim(lastEvent'.out.text) )
      /\ (OnPractice' /\ ~isLoading') => currentReview' = StoredReview' ]_vars

\* a review has succeeded: the item and the display hold its text, the item
\* holds the answer
C15_Witness ==
  /\ lastEvent.op = "reviewResolved"
  /\ lastEvent.out.kind = "ok"
  /\ OnPractice /\ ~isLoading
  /\ currentReview = <<"o", "k">>
  /\ CurrentItem.geminiReview = <<"o", "k">>
  /\ CurrentItem.userAnswer = <<"I">>

\* the indices of the lines that carry the " [Tag]" suffix
WellFormed(ls) == { k \in 1..Len(ls) : LineMatches(ls[k]) }

\* the sentences of data are sentences of well-formed lines of ls, in the
\* order of ls
InOrderFrom(data, ls) ==
  \E f \in [1..Len(data) -> 1..Len(ls)] :
    /\ \A k \in 1..Len(data) :
         /\ f[k] \in WellFormed(ls)
         /\ data[k].originalSentence = Trim(MatchGroups(ls[f[k]]).sentence)
    /\ \A j, k \in 1..Len(data) : j < k => f[j] < f[k]

C17_SeenSet ==
  [][ /\ lastEvent'.op = "begin" => generatedSentencesSet' = {}
      /\ lastEvent'.op = "generateResolved"
         => generatedSentencesSet \subseteq generatedSentencesSet'
      /\ lastEvent'.op \notin {"begin", "generateResolved", "finish"}
         => generatedSentencesSet' = generatedSentencesSet
      /\ lastEvent'.op = "finish" => generatedSentencesSet' = {}
      /\ \A k \in 1..Len(sentencesData') :
           sentencesData'[k].originalSentence \in generatedSentencesSet' ]_vars

\* a review has resolved in a session cut to one item: the seen set still
\* holds both parsed sentences
C17_Witness ==
  /\ lastEvent.op = "reviewResolved"
  /\ OnPractice
  /\ Len(sentencesData) = 1
  /\ Cardinality(generatedSentencesSet) = 2
  /\ sentencesData[1].originalSentence \in generatedSentencesSet

\* C19: every generation request is issued with a non-empty list of tenses,
\* so chosenTenses is never the default, whatever the user unchecks while
\* the request is in flight.
C19_TensesNonEmpty ==
  \A i \in 1..Len(pending) :
    pending[i].kind = "generate"
      => /\ pending[i].tenses # {}
         /\ ChosenTenses(pending[i].tenses) = pending[i].tenses

\* the user has unchecked every tense while the generation request is in
\* flight
C19_Witness ==
  /\ Len(pending) = 1
  /\ pending[1].kind = "generate"
  /\ isLoading
  /\ selectedTenses = {}
  /\ lastEvent.op = "edit"

\* the response of the scenario; "a" and "b" stand for its two sentences, "P"
\* for Present Simple
ScenarioResponse ==
  [kind |-> "ok",
   text |-> <<"a"," ","[","P","]", NL, "b"," ","[","P","]">>]

ScenarioSession ==
  << [originalSentence |-> <<"a">>, tenseUsed |-> <<"P">>,
      userAnswer |-> NoText, geminiReview |-> NoText],
     [originalSentence |-> <<"b">>, tenseUsed |-> <<"P">>,
      userAnswer |-> NoText, geminiReview |-> NoText] >>

\* C20: a begin with tenses {Present Simple}, an empty theme and count 2
\* whose request resolves to the two lines "a [P]" and "b [P]" ends on the
\* practice screen at index 0 with exactly those two sentences in that
\* order, each tagged P, unanswered and unreviewed.
C20_Scenario ==
  [][ ( /\ lastEvent'.op = "generateResolved"
        /\ lastEvent'.out = ScenarioResponse
        /\ Len(pending) = 1
        /\ pending[1].tenses = {"P"}
        /\ pending[1].themes = ""
        /\ pending[1].count = 2 )
      => ( /\ currentPage' = "practice"
           /\ currentSentenceIndex' = 0
           /\ sentencesData' = ScenarioSession ) ]_vars

\* the scenario has run
C20_Witness ==
  /\ lastEvent.op = "generateResolved"
  /\ lastEvent.out = ScenarioResponse
  /\ selectedTenses = {"P"} /\ selectedThemes = "" /\ numSentences = 2
  /\ OnPractice
  /\ currentSentenceIndex = 0
  /\ Len(sentencesData) = 2

\* C21: every started practice session can be completed: from every practice
\* state, when every request resolves and the user keeps typing a non-empty
\* answer, asking for a review and pressing next/finish, the start screen is
\* reached again, also when the session is shorter than the count.
C21_SessionCompletes == OnPractice ~> (currentPage = "start")

\* C22: the count the next/finish action compares the index with during a
\* practice session is the count its generation request was issued with:
\* the count field holds the request's count when the request resolves to
\* the practice screen, also after edits made while the request was in
\* flight, and does not change while the practice screen stays.
C22_SessionCount ==
  [][ /\ ( /\ lastEvent'.op = "generateResolved"
            /\ OnPractice'
            /\ Len(pending) = 1 )
         => numSentences' = pending[1].count
      /\ (OnPractice /\ OnPractice') => numSentences' = numSentences ]_vars

\* what a review is to leave alone besides the items
reviewFrame == << currentSentenceIndex, currentPage, config, generatedSentencesSet >>

ReviewInFlight == \E i \in 1..Len(pending) : pending[i].kind = "review"

\* C23: a review changes only the item at the index that was current when it
\* was requested: the request closes over the session and the index as they
\* are, nothing changes them while it is in flight, and its resolution keeps
\* the length and order of the session, every other item, the index, the
\* screen, the configuration and the seen set.
C23_ReviewFrame ==
  [][ /\ lastEvent'.op = "review"
         => ( /\ pending'[Len(pending')].data = sentencesData
              /\ pending'[Len(pending')].idx = currentSentenceIndex
              /\ UNCHANGED << sentencesData, reviewFrame >> )
      /\ (ReviewInFlight /\ lastEvent'.op # "reviewResolved")
         => UNCHANGED << sentencesData, reviewFrame >>
      /\ ( /\ lastEvent'.op = "reviewResolved"
            /\ Len(pending) = 1 )
         => ( /\ pending[1].idx = currentSentenceIndex
              /\ Len(sentencesData') = Len(sentencesData)
              /\ \A k \in 1..Len(sentencesData) :
                   /\ sentencesData'[k].originalSentence
                        = sentencesData[k].originalSentence
                   /\ sentencesData'[k].tenseUsed = sentencesData[k].tenseUsed
                   /\ k # currentSentenceIndex + 1
                        => sentencesData'[k] = sentencesData[k]
              /\ UNCHANGED reviewFrame ) ]_vars

\* the second item of a two-item session has been reviewed and the first
\* item still holds the answer and the review it was given before
C23_Witness ==
  /\ lastEvent.op = "reviewResolved"
  /\ lastEvent.out.kind = "ok"
  /\ OnPractice
  /\ Len(sentencesData) = 2
  /\ currentSentenceIndex = 1
  /\ sentencesData[1].geminiReview = FallbackReview
  /\ sentencesData[1].userAnswer = <<"I">>
  /\ sentencesData[2].geminiReview = <<"o", "k">>

====
